---- MODULE Spec2Model ----
(***************************************************************************)
(* POPEnv (src/POP_env.py): the gymnasium adapter that drives the SDLPoP   *)
(* engine through ctypes.  The engine globals are the record lib, the      *)
(* adapter's attributes the record self.  A step() call is the action      *)
(* StepCall (lines 90..94), one Tick per iteration of the frame-skip loop  *)
(* (lines 96..142) and StepReturn (lines 144..155).                        *)
(*                                                                         *)
(* Rewards are floats in the source; the model counts them in hundredths   *)
(* (-0.01 is -1, 10 is 1000), so sums stay integers.                       *)
(*                                                                         *)
(* Two specifications share every action.  Spec makes up to MaxCalls       *)
(* step() calls against an engine whose ticks change death and level only. *)
(* TickSpec makes one step() call against an engine whose first RichTicks  *)
(* ticks change every field at once.  ObsSpec is Spec with an engine that  *)
(* may be set up to start a level with no hit points at all.               *)
(***************************************************************************)
EXTENDS Integers, Sequences, FiniteSets, TLC

\* ------------------------------------------------------------------ bounds
\* Number of step() calls Spec makes on one adapter.
MaxCalls == 3
\* self.max_steps is 2,000,000 in the source; the model scales it down.
MaxStepsScaled == 4
\* Number of ticks, counted from pop_main(), in which the engine of TickSpec
\* may change every field at once; afterwards a tick changes only death and
\* level.
RichTicks == 2

\* ------------------------------------------------------- program constants
num_skip == 4
max_steps == MaxStepsScaled
\* reward magnitudes, in hundredths
BaseCost == 1
HpStep == 100
DeathPenalty == 1000
LevelBonus == 1000
SwordBonus == 700
RoomBonus == 400
BossHitBonus == 200
BossKillBonus == 300
\* spaces.Discrete(6)
NumActions == 6

\* --------------------------------------------------- engine (level start)
StartLevel == 1
StartHp == 3
StartRoom == 1

\* room identifiers and guard hit points the engine reports
Rooms == {StartRoom, 5}
GuardHps == {0, 1, 5}
\* action codes handed to step(): two of the action space, one outside it
ActionInputs == {0, 5, 6}

\* prev_hp is None until the first reset(); an observed value v is <<v>>
None == <<>>
\* attributes that only reset() creates
ResetAttrs == {"episode_return", "got_sword", "visited_rooms", "prev_room_id"}

VARIABLES
    lib,      \* the engine's globals read and written through in_dll
    self,     \* the adapter's attributes
    pc,       \* "idle" | "loop" (inside the frame-skip loop) | "exit" (after it)
    loc,      \* step()'s locals: step_reward, terminated, i (ticks done)
    ret,      \* what the last finished call returned or raised
    left,     \* step() calls the run may still make
    ticks,    \* play_level_2() calls since the last init_game()/construction
    trace,    \* engine entry points called by the current (or last) call
    batch,    \* per tick of the current (or last) step(): did it raise terminated
    phase,    \* "new" (never reset) | "active" | "over" (terminated/truncated)
    last,     \* the last simulated tick: trackers before it, its reward
    returned, \* sum of the rewards step() has returned since construction
    rich      \* ticks left in which the engine may change every field

vars == <<lib, self, pc, loc, ret, left, ticks, trace, batch, phase, last,
          returned, rich>>

NoLoc == [step_reward |-> 0, terminated |-> FALSE, i |-> 0]
NoRet == [op |-> "none", status |-> "ok", terminated |-> FALSE,
          truncated |-> FALSE]
NoTick == [valid |-> FALSE]

\* ------------------------------------------------------------------ engine
\* The level-start values init_game(1) and pop_main() leave behind.  The
\* action and step-mode fields, and the rl_kid_dead flag (which reset()
\* clears itself), are not touched.
init_game(L) ==
    [L EXCEPT !.current_level = StartLevel, !.hitp_curr = L.start_hitp,
              !.hitp_max = L.start_hitp, !.have_sword = 0,
              !.curr_room = StartRoom, !.guardhp_curr = 0]

\* One tick of the engine: any snapshot in which the irreversible fields
\* (kid_dead, have_sword, current_level) have not gone back.  With r = 0 the
\* health, the sword, the room and the guard stay as they are.
play_level_2(L, r) ==
    { [L EXCEPT !.hitp_curr = hp, !.rl_kid_dead = d, !.current_level = lv,
                !.have_sword = sw, !.curr_room = rm, !.guardhp_curr = g] :
        hp \in IF r > 0 THEN 0..L.hitp_max ELSE {L.hitp_curr},
        d \in {L.rl_kid_dead, 1},
        lv \in {L.current_level, StartLevel + 1},
        sw \in IF r > 0 THEN {L.have_sword, 1} ELSE {L.have_sword},
        rm \in IF r > 0 THEN Rooms ELSE {L.curr_room},
        g \in IF r > 0 THEN GuardHps ELSE {L.guardhp_curr} }

\* ----------------------------------------------------------------- adapter
\* POPEnv.__init__: the state after construction, with n step() calls to come,
\* r ticks in which the engine changes every field, and an engine set up to
\* start a level with h hit points (start_hitp, the engine's own setting)
Built(n, r, h) ==
    /\ lib = [rl_step_mode |-> 1, rl_action |-> 0, start_level |-> StartLevel,
              start_hitp |-> h,
              rl_kid_dead |-> 0, current_level |-> StartLevel,
              hitp_curr |-> h, hitp_max |-> h, have_sword |-> 0,
              curr_room |-> StartRoom, guardhp_curr |-> 0]
    /\ self = [total_reward |-> 0, step_count |-> 0, prev_hp |-> None,
               guardhp_prev |-> 0, attrs |-> {}, episode_return |-> 0,
               got_sword |-> 0, visited_rooms |-> {}, prev_room_id |-> 0]
    /\ pc = "idle"
    /\ loc = NoLoc
    /\ ret = NoRet
    /\ left = n
    /\ ticks = 0
    /\ trace = <<>>
    /\ batch = <<>>
    /\ phase = "new"
    /\ last = NoTick
    /\ returned = 0
    /\ rich = r

Constructed(n, r) == Built(n, r, StartHp)

Init == Constructed(MaxCalls, 0)

\* the engine starts levels with StartHp hit points or with none
InitObs == \E h \in {0, StartHp} : Built(MaxCalls, 0, h)

InitTick == Constructed(1, RichTicks)

\* variant: __init__ creates every attribute
AttrNeverMissing(s, a) == FALSE

\* reading self.<a> raises AttributeError when reset() has not created it
AttrMissing(s, a) == a \notin s.attrs

\* variant: the division yields a value for every divisor
ObsNeverFails(L) == FALSE

\* _get_obs, line 56: the health fraction divides by hitp_max
ObsFails(L) == L.hitp_max = 0

\* variant: the sword flag is left as the last episode set it
ResetKeepsSword(s, L) ==
    [s EXCEPT !.attrs = @ \cup ResetAttrs,
              !.episode_return = 0,
              !.step_count = 0,
              !.prev_hp = <<L.hitp_curr>>,
              !.guardhp_prev = L.guardhp_curr,
              !.visited_rooms = {L.curr_room},
              !.prev_room_id = L.curr_room]

\* variant: the running total starts again with every episode
ResetZeroesTotal(s, L) ==
    [s EXCEPT !.attrs = @ \cup ResetAttrs,
              !.total_reward = 0,
              !.episode_return = 0,
              !.step_count = 0,
              !.got_sword = 0,
              !.prev_hp = <<L.hitp_curr>>,
              !.guardhp_prev = L.guardhp_curr,
              !.visited_rooms = {L.curr_room},
              !.prev_room_id = L.curr_room]

\* variant: reset() empties the visited set without seeding it
ResetEmptyVisited(s, L) ==
    [s EXCEPT !.attrs = @ \cup ResetAttrs,
              !.episode_return = 0,
              !.step_count = 0,
              !.got_sword = 0,
              !.prev_hp = <<L.hitp_curr>>,
              !.guardhp_prev = L.guardhp_curr,
              !.visited_rooms = {},
              !.prev_room_id = L.curr_room]

\* reset(), lines 72..81: the episode state after init_game
ResetState(s, L) ==
    [s EXCEPT !.attrs = @ \cup ResetAttrs,
              !.episode_return = 0,
              !.step_count = 0,
              !.got_sword = 0,
              !.prev_hp = <<L.hitp_curr>>,
              !.guardhp_prev = L.guardhp_curr,
              !.visited_rooms = {L.curr_room},
              !.prev_room_id = L.curr_room]

\* variant: the call returns without taking an observation
ObsSkipped(t) == t

\* _get_obs, line 54: one frame refresh, then the observation is read
ObsTaken(t) == Append(t, "rl_get_frame")

\* reset()
Reset ==
    /\ pc = "idle"
    /\ LET L == [init_game(lib) EXCEPT !.rl_kid_dead = 0]
       IN /\ lib' = L
          /\ self' = ResetState(self, L)
          /\ ret' = [NoRet EXCEPT !.op = "reset",
                       !.status = IF ObsFails(L) THEN "ZeroDivisionError" ELSE "ok"]
    /\ trace' = ObsTaken(<<"init_game">>)
    /\ ticks' = 0
    /\ phase' = "active"
    /\ last' = NoTick
    /\ batch' = <<>>
    /\ UNCHANGED <<pc, loc, left, returned, rich>>

\* line 90: the action code goes to the engine as it is
WriteAction(L, action) == [L EXCEPT !.rl_action = action]

\* step(), lines 90..94
StepCall(action) ==
    /\ pc = "idle"
    /\ left > 0
    /\ left' = left - 1
    /\ lib' = WriteAction(lib, action)
    /\ loc' = NoLoc
    /\ pc' = "loop"
    /\ trace' = <<>>
    /\ batch' = <<>>
    /\ UNCHANGED <<self, ret, ticks, phase, last, returned, rich>>

\* variant: the counter starts again once it has reached the limit
CountTickWraps(s) ==
    [s EXCEPT !.step_count = IF @ >= max_steps THEN 1 ELSE @ + 1]

\* line 99
CountTick(s) == [s EXCEPT !.step_count = @ + 1]

\* variant: the step limit also sets terminated
TerminalAtLimit(s, L) ==
    L.rl_kid_dead = 1 \/ L.current_level > 1 \/ s.step_count >= max_steps

\* lines 109..115: the tick's snapshot sets terminated
Terminal(s, L) == L.rl_kid_dead = 1 \/ L.current_level > 1

\* variant: a health gain is not rewarded
HpLossOnly(prev_hp, current_hp) ==
    IF prev_hp # None /\ current_hp < prev_hp[1] THEN 0 - HpStep ELSE 0

\* lines 103..107
HpReward(prev_hp, current_hp) ==
    (IF prev_hp # None /\ current_hp < prev_hp[1] THEN 0 - HpStep ELSE 0)
    + (IF prev_hp # None /\ current_hp > prev_hp[1] THEN HpStep ELSE 0)

\* lines 109..110
DeathReward(L) == IF L.rl_kid_dead = 1 THEN 0 - DeathPenalty ELSE 0

\* lines 113..114
LevelReward(L) == IF L.current_level > 1 THEN LevelBonus ELSE 0

\* line 117
SwordEdge(s, L) == L.have_sword > s.got_sword

\* variant: the sword adds the room without clearing the set
VisitedKept(s, L) ==
    IF SwordEdge(s, L) THEN s.visited_rooms \cup {L.curr_room}
    ELSE s.visited_rooms

\* variant: the sword clears the set and does not put the room back
VisitedCleared(s, L) ==
    IF SwordEdge(s, L) THEN {} ELSE s.visited_rooms

\* lines 120..121: the visited set once the sword test has run
VisitedAfterSword(s, L) ==
    IF SwordEdge(s, L) THEN {L.curr_room} ELSE s.visited_rooms

\* variant: a guard brought to 0 counts as a hit, not as a kill
BossHitAtZero(room_id, prev_room_id, guardhp_curr, guardhp_prev) ==
    IF room_id = prev_room_id /\ guardhp_curr < guardhp_prev
    THEN IF guardhp_curr >= 0 THEN BossHitBonus
         ELSE IF guardhp_prev > 0 THEN BossKillBonus ELSE 0
    ELSE 0

\* lines 129..134
BossReward(room_id, prev_room_id, guardhp_curr, guardhp_prev) ==
    IF room_id = prev_room_id /\ guardhp_curr < guardhp_prev
    THEN IF guardhp_curr > 0 THEN BossHitBonus
         ELSE IF guardhp_prev > 0 THEN BossKillBonus ELSE 0
    ELSE 0

\* variant: a tick that raises terminated leaves the trackers alone
ShapeTickSkipsOnEnd(s, L) ==
    LET current_hp == L.hitp_curr
        sword == SwordEdge(s, L)
        vis6 == VisitedAfterSword(s, L)
        room_id == L.curr_room
        fresh == room_id \notin vis6
        guardhp_curr == L.guardhp_curr
        ends == Terminal(s, L)
    IN [frame_reward |->
            (0 - BaseCost)
            + HpReward(s.prev_hp, current_hp)
            + DeathReward(L)
            + LevelReward(L)
            + (IF sword THEN SwordBonus ELSE 0)
            + (IF fresh THEN RoomBonus ELSE 0)
            + BossReward(room_id, s.prev_room_id, guardhp_curr, s.guardhp_prev),
        self |-> [s EXCEPT
            !.got_sword = IF sword THEN L.have_sword ELSE @,
            !.visited_rooms = IF fresh THEN vis6 \cup {room_id} ELSE vis6,
            !.prev_room_id = IF ends THEN @ ELSE room_id,
            !.guardhp_prev = IF ends THEN @ ELSE guardhp_curr,
            !.prev_hp = IF ends THEN @ ELSE <<current_hp>>]]

\* variant: the room bonus is paid whenever the room changes
ShapeTickBonusOnEntry(s, L) ==
    LET current_hp == L.hitp_curr
        sword == SwordEdge(s, L)
        vis6 == VisitedAfterSword(s, L)
        room_id == L.curr_room
        fresh == room_id # s.prev_room_id
        guardhp_curr == L.guardhp_curr
    IN [frame_reward |->
            (0 - BaseCost)
            + HpReward(s.prev_hp, current_hp)
            + DeathReward(L)
            + LevelReward(L)
            + (IF sword THEN SwordBonus ELSE 0)
            + (IF fresh THEN RoomBonus ELSE 0)
            + BossReward(room_id, s.prev_room_id, guardhp_curr, s.guardhp_prev),
        self |-> [s EXCEPT
            !.got_sword = IF sword THEN L.have_sword ELSE @,
            !.visited_rooms = IF fresh THEN vis6 \cup {room_id} ELSE vis6,
            !.prev_room_id = room_id,
            !.guardhp_prev = guardhp_curr,
            !.prev_hp = <<current_hp>>]]

\* lines 100..139: the reward of one tick and the trackers after it
ShapeTick(s, L) ==
    LET current_hp == L.hitp_curr
        sword == SwordEdge(s, L)
        vis6 == VisitedAfterSword(s, L)
        room_id == L.curr_room
        fresh == room_id \notin vis6
        guardhp_curr == L.guardhp_curr
    IN [frame_reward |->
            (0 - BaseCost)
            + HpReward(s.prev_hp, current_hp)
            + DeathReward(L)
            + LevelReward(L)
            + (IF sword THEN SwordBonus ELSE 0)
            + (IF fresh THEN RoomBonus ELSE 0)
            + BossReward(room_id, s.prev_room_id, guardhp_curr, s.guardhp_prev),
        self |-> [s EXCEPT
            !.got_sword = IF sword THEN L.have_sword ELSE @,
            !.visited_rooms = IF fresh THEN vis6 \cup {room_id} ELSE vis6,
            !.prev_room_id = room_id,
            !.guardhp_prev = guardhp_curr,
            !.prev_hp = <<current_hp>>]]

\* variant: no break on terminated
LoopNoBreak(l) == l.i < num_skip

\* lines 96, 141..142: the loop runs on after a tick
LoopContinues(l) == ~l.terminated /\ l.i < num_skip

\* one iteration of the frame-skip loop, lines 98..142
Tick ==
    /\ pc = "loop"
    /\ rich' = IF rich > 0 THEN rich - 1 ELSE 0
    /\ \E L \in play_level_2(lib, rich) :
        LET s1 == CountTick(self)
            t  == Terminal(s1, L)
            sh == ShapeTick(s1, L)
            l1 == [step_reward |-> loc.step_reward + sh.frame_reward,
                   terminated |-> loc.terminated \/ t,
                   i |-> loc.i + 1]
        IN /\ lib' = L
           /\ ticks' = ticks + 1
           /\ trace' = Append(trace, "play_level_2")
           /\ batch' = Append(batch, t)
           /\ IF AttrMissing(self, "got_sword")
              THEN \* line 117 raises; lines 98..115 have run
                   /\ self' = s1
                   /\ pc' = "idle"
                   /\ loc' = NoLoc
                   /\ ret' = [NoRet EXCEPT !.op = "step",
                                           !.status = "AttributeError"]
                   /\ last' = NoTick
              ELSE /\ self' = sh.self
                   /\ loc' = l1
                   /\ pc' = IF LoopContinues(l1) THEN "loop" ELSE "exit"
                   /\ last' = [valid |-> TRUE,
                               prev_hp |-> self.prev_hp,
                               guardhp_prev |-> self.guardhp_prev,
                               prev_room_id |-> self.prev_room_id,
                               got_sword |-> self.got_sword,
                               visited_rooms |-> self.visited_rooms,
                               kid_dead |-> lib.rl_kid_dead,
                               frame_reward |-> sh.frame_reward]
                   /\ UNCHANGED ret
    /\ UNCHANGED <<left, phase, returned>>

\* variant: strict comparison
TruncatedStrict(s) == s.step_count > max_steps

\* line 146
Truncated(s) == s.step_count >= max_steps

\* lines 144..155
StepReturn ==
    /\ pc = "exit"
    /\ self' = [self EXCEPT !.total_reward = @ + loc.step_reward]
    /\ trace' = ObsTaken(trace)
    /\ IF ObsFails(lib)
       THEN /\ ret' = [NoRet EXCEPT !.op = "step", !.status = "ZeroDivisionError"]
            /\ UNCHANGED <<phase, returned>>
       ELSE /\ returned' = returned + loc.step_reward
            /\ ret' = [op |-> "step", status |-> "ok",
                       terminated |-> loc.terminated,
                       truncated |-> Truncated(self)]
            /\ phase' = IF loc.terminated \/ Truncated(self) THEN "over" ELSE phase
    /\ pc' = "idle"
    /\ loc' = NoLoc
    /\ UNCHANGED <<lib, left, ticks, batch, last, rich>>

\* variant: close() flips the step-mode flag
StepModeFlipped(L) == [L EXCEPT !.rl_step_mode = 1 - @]

\* line 158: the only engine field close() writes
StepModeOff(L) == [L EXCEPT !.rl_step_mode = 0]

\* close(), line 158
Close ==
    /\ pc = "idle"
    /\ lib' = StepModeOff(lib)
    /\ ret' = [NoRet EXCEPT !.op = "close"]
    /\ trace' = <<>>
    /\ UNCHANGED <<self, pc, loc, left, ticks, batch, phase, last, returned, rich>>

Next ==
    \/ Reset
    \/ \E a \in ActionInputs : StepCall(a)
    \/ Tick
    \/ StepReturn
    \/ Close

Spec == Init /\ [][Next]_vars
TickSpec == InitTick /\ [][Next]_vars
ObsSpec == InitObs /\ [][Next]_vars

\* ------------------------------------------------------------------ claims
\* a step() call has returned its five-tuple and nothing was called since
StepReturned == pc = "idle" /\ ret.op = "step" /\ ret.status = "ok"

\* the snapshot of the last simulated tick shows death or level advance
LastTickEnds == lib.rl_kid_dead = 1 \/ lib.current_level > 1

\* C1: the terminated flag step() returns is true exactly when the last tick
\* simulated in that call observed death or a level above 1; reaching the
\* step limit alone never makes it true.
C1_TerminatedIffLastTickEnds ==
    StepReturned => (ret.terminated <=> LastTickEnds)

\* a step() result that is truncated by the step limit alone
C1_Witness ==
    StepReturned /\ ret.truncated /\ ~ret.terminated /\ ~LastTickEnds

\* C2: the truncated flag step() returns equals step_count >= max_steps with
\* the call's ticks counted, whatever terminated is.
C2_TruncatedIffLimit ==
    StepReturned =>
        /\ ret.truncated <=> (self.step_count >= MaxStepsScaled)
        /\ ret.truncated <=> (ticks >= MaxStepsScaled)

\* a step() result with both flags set, the limit reached exactly
C2_Witness ==
    StepReturned /\ ret.truncated /\ ret.terminated
    /\ self.step_count = MaxStepsScaled

\* C3: a step() call simulates num_skip ticks when none raises terminated and
\* otherwise stops with the first tick that raises it: no tick follows a
\* terminating tick in the same call.
C3_BatchStopsAtFirstTerminal ==
    /\ \A j \in 1..(Len(batch) - 1) : ~batch[j]
    /\ Len(batch) <= num_skip
    /\ StepReturned =>
        /\ Len(batch) \in 1..num_skip
        /\ ret.terminated <=> batch[Len(batch)]
        /\ ~ret.terminated => Len(batch) = num_skip

\* a call that stopped at its second tick
C3_Witness ==
    StepReturned /\ Len(batch) = 2 /\ batch[2] /\ ~batch[1]

\* The items of the reward table for the last simulated tick, each from the
\* trackers as they were before the tick (last) and the snapshot after it (lib).
ItemHealth ==
    IF lib.hitp_curr < last.prev_hp[1] THEN -100
    ELSE IF lib.hitp_curr > last.prev_hp[1] THEN 100 ELSE 0

ItemDeath == IF lib.rl_kid_dead = 1 THEN -1000 ELSE 0

ItemLevel == IF lib.current_level > 1 THEN 1000 ELSE 0

SwordRises == lib.have_sword > last.got_sword

ItemSword == IF SwordRises THEN 700 ELSE 0

\* the set the room test reads: reseeded by the sword item just before it
ItemRoom ==
    IF lib.curr_room \notin (IF SwordRises THEN {lib.curr_room}
                             ELSE last.visited_rooms)
    THEN 400 ELSE 0

ItemBoss ==
    IF lib.curr_room = last.prev_room_id /\ lib.guardhp_curr < last.guardhp_prev
    THEN IF lib.guardhp_curr > 0 THEN 200
         ELSE IF last.guardhp_prev > 0 THEN 300 ELSE 0
    ELSE 0

\* health, room and guard as before the tick, no sword edge, no death, level 1
QuietTick ==
    /\ lib.hitp_curr = last.prev_hp[1]
    /\ lib.curr_room = last.prev_room_id
    /\ lib.curr_room \in last.visited_rooms
    /\ lib.guardhp_curr = last.guardhp_prev
    /\ ~SwordRises
    /\ lib.rl_kid_dead = 0
    /\ lib.current_level = 1

\* the only change of the tick is hp 3 -> 2
OnlyHpThreeToTwo ==
    /\ last.prev_hp = <<3>> /\ lib.hitp_curr = 2
    /\ lib.curr_room = last.prev_room_id
    /\ lib.curr_room \in last.visited_rooms
    /\ lib.guardhp_curr = last.guardhp_prev
    /\ ~SwordRises
    /\ lib.rl_kid_dead = 0
    /\ lib.current_level = 1

\* C4: the reward of a tick is the sum of the items of the reward table,
\* computed from the snapshot after the tick and the trackers before it; a
\* tick that changes nothing earns -0.01 and one whose only change is
\* hp 3 -> 2 earns -1.01.
C4_TickRewardIsTableSum ==
    last.valid =>
        /\ last.frame_reward = -1 + ItemHealth + ItemDeath + ItemLevel
                               + ItemSword + ItemRoom + ItemBoss
        /\ QuietTick => last.frame_reward = -1
        /\ OnlyHpThreeToTwo => last.frame_reward = -101

\* a tick whose only change is hp 3 -> 2
C4_Witness == last.valid /\ OnlyHpThreeToTwo /\ last.frame_reward = -101

\* C5: a tick on which have_sword exceeds the tracked flag earns +7 and
\* leaves visited_rooms = {current room}; a later tick entering a room that
\* is not in the reseeded set earns the +4 bonus and records the room.
C5_SwordReseedsVisited ==
    last.valid =>
        /\ SwordRises =>
            /\ self.visited_rooms = {lib.curr_room}
            /\ self.got_sword = lib.have_sword
            /\ last.frame_reward
                 = 700 - 1 + ItemHealth + ItemDeath + ItemLevel + ItemBoss
        /\ (~SwordRises /\ lib.curr_room \notin last.visited_rooms) =>
            /\ last.frame_reward
                 = 400 - 1 + ItemHealth + ItemDeath + ItemLevel + ItemBoss
            /\ self.visited_rooms = last.visited_rooms \cup {lib.curr_room}

\* the sword was picked up in room 5, which reseeded the set to {5}; the
\* tick after it re-enters the start room, visited since reset(), for +4
C5_Witness ==
    /\ last.valid
    /\ last.got_sword = 1
    /\ last.visited_rooms = {5}
    /\ lib.curr_room = StartRoom
    /\ last.frame_reward
         = 400 - 1 + ItemHealth + ItemDeath + ItemLevel + ItemBoss
    /\ self.visited_rooms = {StartRoom, 5}

\* reset() has returned and nothing was called since
ResetReturned == pc = "idle" /\ ret.op = "reset" /\ ret.status = "ok"

\* C6: after reset(), whenever it is called, step_count is 0, visited_rooms
\* is {current room} and every tracker holds the value the freshly reset
\* simulation reports.
C6_ResetIsFresh ==
    ResetReturned =>
        /\ self.step_count = 0
        /\ self.visited_rooms = {lib.curr_room}
        /\ self.prev_hp = <<lib.hitp_curr>>
        /\ self.guardhp_prev = lib.guardhp_curr
        /\ self.prev_room_id = lib.curr_room
        /\ self.got_sword = lib.have_sword
        /\ lib.rl_kid_dead = 0

\* reset() after a step() call of an earlier episode has returned
C6_Witness == ResetReturned /\ left = 0 /\ returned # 0

\* a step() call is running or was the last call to finish
InStep == pc # "idle" \/ ret.op = "step"

\* C7: step_count is the number of ticks simulated since the last reset()
\* (or construction): every simulated tick adds one, the terminating tick of
\* an early exit included, and step() neither zeroes the counter nor
\* re-initialises the simulation.
C7_StepCountIsTicksSinceReset ==
    /\ self.step_count = ticks
    /\ InStep => \A j \in 1..Len(trace) : trace[j] # "init_game"
    /\ (pc # "idle" \/ StepReturned) => self.step_count >= Len(batch)

\* an early-exited call made after a terminated result, without reset():
\* the counter ran on
C7_Witness ==
    /\ StepReturned /\ ret.terminated
    /\ Len(batch) = 1
    /\ self.step_count = num_skip + 2

\* C8 (as claimed): a step() call made once a terminated or truncated result
\* has been returned, with no reset() since, simulates no tick and returns
\* nothing.
C8_NoStepAfterEpisodeEnd ==
    (phase = "over" /\ pc # "idle") => (Len(batch) = 0 /\ pc # "exit")

\* C9: step() on an adapter that was never reset raises (AttributeError on
\* self.got_sword) and returns no reward.
C9_StepBeforeResetRaises ==
    phase = "new" =>
        /\ pc # "exit"
        /\ ret.op = "step" => ret.status = "AttributeError"
        /\ returned = 0
        /\ self.total_reward = 0

\* step() was called before any reset() and raised
C9_Witness ==
    phase = "new" /\ pc = "idle" /\ ret.op = "step"
    /\ ret.status = "AttributeError"

\* C10 (as claimed): an action code outside 0..5 is never written to the
\* engine's action field, so no tick runs with it.
C10_ActionFieldInRange == lib.rl_action \in 0..(NumActions - 1)

\* reset() or step() has got as far as _get_obs and nothing was called since
ObsAttempted ==
    /\ pc = "idle"
    /\ ret.op \in {"reset", "step"}
    /\ ret.status \in {"ok", "ZeroDivisionError"}

\* C11: with hitp_max = 0 when the observation is taken, reset() and step()
\* raise at the health-fraction division; no call returns an observation
\* while hitp_max is 0.
C11_ZeroMaxHealthRaises ==
    ObsAttempted => (ret.status = "ZeroDivisionError" <=> lib.hitp_max = 0)

\* step() ran its ticks on an engine with hitp_max = 0 and raised in _get_obs
C11_Witness ==
    /\ pc = "idle" /\ ret.op = "step" /\ ret.status = "ZeroDivisionError"
    /\ lib.hitp_max = 0
    /\ Len(batch) = num_skip

\* C12: the total_reward step() reports is the sum of the rewards all step()
\* calls have returned since construction; reset() leaves it as it is, so
\* the sum runs across episodes.
C12_TotalIsSumOfReturned == self.total_reward = returned

\* reset() after an episode that earned a reward: the total is kept
C12_Witness ==
    /\ ResetReturned /\ returned # 0 /\ self.total_reward = returned
    /\ left < MaxCalls

\* a close() call made between calls
CloseStep == pc = "idle" /\ pc' = "idle" /\ ret'.op = "close"

\* C13: close() raises nothing, turns step mode off and changes neither the
\* adapter's episode state nor any other engine field; a close() that
\* follows a close() leaves the engine exactly as it was.
C13_CloseIdempotent ==
    [][CloseStep =>
        /\ ret'.status = "ok"
        /\ lib'.rl_step_mode = 0
        /\ lib' = [lib EXCEPT !.rl_step_mode = 0]
        /\ self' = self
        /\ phase' = phase /\ ticks' = ticks /\ returned' = returned
        /\ ret.op = "close" => lib' = lib]_vars

\* close() was called after a step() call that returned a reward
C13_Witness ==
    /\ pc = "idle" /\ ret.op = "close" /\ lib.rl_step_mode = 0
    /\ self.step_count > 0 /\ returned # 0 /\ left > 0
    /\ StepModeOff(lib) = lib

\* the last simulated tick began with kid_dead already set
TickStartedDead == last.valid /\ last.kid_dead = 1

\* C14 (as claimed): the death penalty is charged, and terminated raised for
\* death, only on the tick in which kid_dead goes from 0 to 1; a tick that
\* starts with kid_dead already 1 carries no death penalty.
C14_DeathPenaltyOnRisingEdgeOnly ==
    TickStartedDead =>
        /\ last.frame_reward
             = -1 + ItemHealth + ItemLevel + ItemSword + ItemRoom + ItemBoss
        /\ lib.current_level = 1 => ~batch[Len(batch)]

\* what the last tick's reward holds beyond the other items of the table
BossPart ==
    last.frame_reward
    - (-1 + ItemHealth + ItemDeath + ItemLevel + ItemSword + ItemRoom)

SameRoom == lib.curr_room = last.prev_room_id

GuardFell == lib.guardhp_curr < last.guardhp_prev

\* C15: the boss bonus of a tick is +2 when the room is the previous tick's
\* and guard hp fell but is still above 0, +3 when the room is the same and
\* guard hp fell from above 0 to 0 or below, and 0 otherwise, in particular
\* whenever the room changed.
C15_BossBonusCases ==
    last.valid =>
        /\ (SameRoom /\ GuardFell /\ lib.guardhp_curr > 0) => BossPart = 200
        /\ (SameRoom /\ GuardFell /\ lib.guardhp_curr <= 0
              /\ last.guardhp_prev > 0) => BossPart = 300
        /\ ~SameRoom => BossPart = 0
        /\ ~GuardFell => BossPart = 0
        /\ BossPart \in {0, 200, 300}

\* the guard went from 5 to 0 in the room of the previous tick: +3
C15_Witness ==
    /\ last.valid /\ SameRoom
    /\ last.guardhp_prev = 5 /\ lib.guardhp_curr = 0
    /\ BossPart = 300

\* a tick of the frame-skip loop that ran to the end of the loop body
TickStep == pc = "loop" /\ ticks' = ticks + 1 /\ last'.valid

\* C16: the reward of a tick is computed with the trackers holding what the
\* engine showed at the end of the tick before (or at reset()), and at the
\* end of the tick the trackers hold what the engine shows now, also when
\* the tick raised terminated.
C16_TrackersFollowEachTick ==
    [][TickStep =>
        /\ last'.prev_hp = <<lib.hitp_curr>>
        /\ last'.guardhp_prev = lib.guardhp_curr
        /\ last'.prev_room_id = lib.curr_room
        /\ self'.prev_hp = <<lib'.hitp_curr>>
        /\ self'.guardhp_prev = lib'.guardhp_curr
        /\ self'.prev_room_id = lib'.curr_room]_vars

\* a tick that raised terminated while health, guard and room all changed:
\* the trackers were brought up to date all the same
C16_Witness ==
    /\ last.valid /\ Len(batch) > 0 /\ batch[Len(batch)]
    /\ last.prev_hp # <<lib.hitp_curr>> /\ self.prev_hp = <<lib.hitp_curr>>
    /\ last.guardhp_prev # lib.guardhp_curr
    /\ self.guardhp_prev = lib.guardhp_curr
    /\ last.prev_room_id # lib.curr_room /\ self.prev_room_id = lib.curr_room

\* C17: once reset() has run, and after every simulated tick, visited_rooms
\* contains the room the engine is in.
C17_CurrentRoomIsVisited ==
    /\ phase # "new" => lib.curr_room \in self.visited_rooms
    /\ last.valid => lib.curr_room \in self.visited_rooms

\* a tick without sword edge took the kid into a room not visited before
C17_Witness ==
    /\ last.valid /\ ~SwordRises
    /\ lib.curr_room \notin last.visited_rooms
    /\ lib.curr_room \in self.visited_rooms

\* the engine calls of the running or last call, without the observation
TicksOnly(t) == \A j \in 1..Len(t) : t[j] = "play_level_2"

\* C18: reset() and step() each take exactly one observation, as their last
\* engine call: after init_game in reset(), after the last simulated tick in
\* step(), also when the batch exited early.
C18_OneObservationAfterLastTick ==
    /\ StepReturned =>
        /\ Len(trace) = Len(batch) + 1
        /\ TicksOnly(SubSeq(trace, 1, Len(batch)))
        /\ trace[Len(trace)] = "rl_get_frame"
    /\ ResetReturned => trace = <<"init_game", "rl_get_frame">>
    /\ pc # "idle" => (TicksOnly(trace) /\ Len(trace) = Len(batch))

\* a batch that exited at its first tick, then the one observation
C18_Witness ==
    /\ StepReturned /\ ret.terminated
    /\ trace = <<"play_level_2", "rl_get_frame">>

\* what the last tick's reward holds beyond the items other than the room's
RoomPart ==
    last.frame_reward
    - (-1 + ItemHealth + ItemDeath + ItemLevel + ItemSword + ItemBoss)

\* C19: a tick on which the sword edge fires never earns the +4 room bonus;
\* a room entered for the first time on that tick is recorded as visited
\* without a bonus.
C19_NoRoomBonusOnSwordTick ==
    (last.valid /\ SwordRises) =>
        /\ RoomPart = 0
        /\ lib.curr_room \in self.visited_rooms

\* the sword was picked up on the tick that entered a room for the first time
C19_Witness ==
    /\ last.valid /\ SwordRises
    /\ lib.curr_room \notin last.visited_rooms
    /\ RoomPart = 0
    /\ lib.curr_room \in self.visited_rooms

\* C20: from one clearing event (reset() or a sword tick) to the next,
\* visited_rooms only grows and a room earns the +4 bonus at most once:
\* a clearing event leaves exactly the room it happens in, a tick without
\* sword edge keeps every room of the set, pays the bonus only for a room
\* that is not in it and then holds that room, so neither a room paid before
\* nor the room of the clearing event is paid again.
C20_RoomBonusOncePerClearing ==
    /\ ResetReturned => self.visited_rooms = {lib.curr_room}
    /\ (last.valid /\ SwordRises) => self.visited_rooms = {lib.curr_room}
    /\ (last.valid /\ ~SwordRises) =>
        /\ last.visited_rooms \subseteq self.visited_rooms
        /\ RoomPart \in {0, 400}
        /\ RoomPart = 400 <=> lib.curr_room \notin last.visited_rooms
        /\ self.visited_rooms \subseteq last.visited_rooms \cup {lib.curr_room}
        /\ lib.curr_room \in self.visited_rooms

\* no sword since reset(): the kid left the start room for room 5 and came
\* back, and the return to the room of the reset earned no bonus
C20_Witness ==
    /\ last.valid /\ ~SwordRises /\ last.got_sword = 0
    /\ lib.curr_room = StartRoom /\ last.prev_room_id = 5
    /\ last.visited_rooms = {StartRoom, 5}
    /\ RoomPart = 0
    /\ self.visited_rooms = {StartRoom, 5}
====
